---- MODULE Spec2Model ----
(***************************************************************************)
(* A state-machine model of the two tutorial scripts of this repository,   *)
(* quick_start.py and tutorial.py.  Each script is a straight-line         *)
(* program: the model keeps a program counter into the list of the         *)
(* script's statements and one action per kind of statement.  The state    *)
(* is what the statements act on: the in-memory SQLite database (the rows  *)
(* as last committed and the rows as the single DBAPI connection sees      *)
(* them), the Connection bound to `conn`, the Session objects, the mapped  *)
(* User / Address instances on the Python heap and the script's names.     *)
(***************************************************************************)
EXTENDS Integers, Sequences, FiniteSets, TLC

VARIABLES script, pc, halted, exc, committed, working, conn, sessions,
          session, heap, names, result

vars == <<script, pc, halted, exc, committed, working, conn, sessions,
          session, heap, names, result>>

\* Python's None for an integer-valued attribute or an unbound name
\* (SQLite rowids and the model's heap and session indices start at 1).
None == 0

Scripts == {"quick_start", "tutorial"}

-----------------------------------------------------------------------------
\* Small helpers

RECURSIVE SetToSeq(_)
SetToSeq(S) ==
    IF S = {} THEN <<>>
    ELSE LET m == CHOOSE x \in S : \A y \in S : x <= y
         IN <<m>> \o SetToSeq(S \ {m})

SeqToSet(s) == {s[i] : i \in 1..Len(s)}

MaxOf(S) == IF S = {} THEN 0 ELSE CHOOSE x \in S : \A y \in S : y <= x

MinOf(S) == CHOOSE x \in S : \A y \in S : x <= y

-----------------------------------------------------------------------------
\* The database: sqlite in memory, one DBAPI connection shared by every
\* Connection and Session of the script.

EmptyDB == [tables |-> {}, some_table |-> <<>>,
            user_account |-> {}, address |-> {}]

Ids(rows) == {r.id : r \in rows}

\* SQLite INTEGER PRIMARY KEY without AUTOINCREMENT: the new rowid is one more
\* than the largest rowid currently in the table.
NextId(rows) == MaxOf(Ids(rows)) + 1

RowById(rows, id) == CHOOSE r \in rows : r.id = id

\* The words ending in ".net", for Address.email_address.like("%.net").
DotNet == {"spongebob@bikinibottom.net", "sandy@bikinibottom.net",
           "sandy_cheeks@bikinibottom.net", "patrickstar@bikinibottom.net"}

-----------------------------------------------------------------------------
\* Mapped classes (quick_start.py 12-36, tutorial.py 142-164)

\* The cascade setting of User.addresses: quick_start.py passes
\* cascade="all, delete-orphan", tutorial.py leaves the default.
DefaultCascade == {"save-update", "merge"}

Cascade(sc) ==
    IF sc = "quick_start"
    THEN {"save-update", "merge", "refresh-expire", "expunge", "delete",
          "delete-orphan"}
    ELSE DefaultCascade

\* An instance of User as its constructor leaves it: transient, no primary
\* key, an empty addresses collection.
MkUser(name, fullname) ==
    [cls |-> "User", origin |-> "constructed", state |-> "transient",
     sess |-> None, id |-> None, name |-> name, fullname |-> fullname,
     email_address |-> "", user_id |-> None,
     user |-> None, userLoaded |-> FALSE,
     addresses |-> {}, addrLoaded |-> TRUE,
     dirty |-> FALSE, expired |-> FALSE, committed |-> FALSE]

\* An instance of Address as its constructor leaves it.
MkAddress(email) ==
    [cls |-> "Address", origin |-> "constructed", state |-> "transient",
     sess |-> None, id |-> None, name |-> "", fullname |-> "",
     email_address |-> email, user_id |-> None,
     user |-> None, userLoaded |-> TRUE,
     addresses |-> {}, addrLoaded |-> FALSE,
     dirty |-> FALSE, expired |-> FALSE, committed |-> FALSE]

\* The instance the loader builds for a row of user_account.
UserOfRow(r, s, isCommitted) ==
    [MkUser(r.name, r.fullname) EXCEPT
        !.origin = "loaded", !.state = "persistent", !.sess = s,
        !.id = r.id, !.addrLoaded = FALSE, !.committed = isCommitted]

\* The instance the loader builds for a row of address.
AddressOfRow(r, s, isCommitted) ==
    [MkAddress(r.email_address) EXCEPT
        !.origin = "loaded", !.state = "persistent", !.sess = s,
        !.id = r.id, !.user_id = r.user_id, !.userLoaded = FALSE,
        !.committed = isCommitted]

\* The row an instance is written to.
RowOfUser(o) == [id |-> o.id, name |-> o.name, fullname |-> o.fullname]

RowOfAddress(o) ==
    [id |-> o.id, user_id |-> o.user_id, email_address |-> o.email_address]

\* back_populates, omitted: the other side of the relationship is left alone.
LinkOneSided(h, u, a) ==
    [h EXCEPT ![u].addresses = @ \cup {a}, ![u].addrLoaded = TRUE]

\* back_populates: putting a into u.addresses also sets a.user = u, and takes
\* a out of the collection of the user it belonged to before.
Link(h, u, a) ==
    LET old == h[a].user
        h1  == IF h[a].userLoaded /\ old # None /\ old # u /\ h[old].addrLoaded
               THEN [h EXCEPT ![old].addresses = @ \ {a}]
               ELSE h
    IN [h1 EXCEPT ![u].addresses = @ \cup {a}, ![u].addrLoaded = TRUE,
                  ![a].user = u, ![a].userLoaded = TRUE]

\* back_populates: taking a out of u.addresses sets a.user = None.
Unlink(h, u, a) ==
    [h EXCEPT ![u].addresses = @ \ {a},
              ![a].user = None, ![a].userLoaded = TRUE]

RECURSIVE LinkAll(_, _, _)
LinkAll(h, u, as) ==
    IF as = <<>> THEN h ELSE LinkAll(Link(h, u, Head(as)), u, Tail(as))

\* User(name=..., fullname=..., addresses=[Address(...), ...]): the Address
\* arguments are constructed first, then the User, whose constructor assigns
\* the collection.
ConstructUser(h, name, fullname, emails) ==
    LET n  == Len(h)
        k  == Len(emails)
        h1 == h \o [i \in 1..k |-> MkAddress(emails[i])]
                \o <<MkUser(name, fullname)>>
    IN LinkAll(h1, n + k + 1, [i \in 1..k |-> n + i])

-----------------------------------------------------------------------------
\* Session: unit of work and identity map

\* Session(engine): nothing pending, nothing loaded, no transaction yet.
\* exited records that the with block the session heads was left.
NewSession(scoped) ==
    [scoped |-> scoped, closed |-> FALSE, exited |-> FALSE,
     intrans |-> FALSE, new |-> <<>>, deleted |-> {}, idmap |-> {}]

\* The objects the save-update cascade reaches from o, o first.
CascadeSeq(h, o) ==
    IF h[o].cls = "User"
    THEN <<o>> \o SetToSeq(h[o].addresses)
    ELSE <<o>> \o (IF h[o].userLoaded /\ h[o].user # None
                   THEN <<h[o].user>>
                        \o SetToSeq(h[h[o].user].addresses \ {o})
                   ELSE <<>>)

\* An add() that counts the object as written already: it skips pending.
StageOneSkipsPending(st, s, o) ==
    IF st.h[o].state = "transient"
    THEN [h  |-> [st.h EXCEPT ![o].state = "persistent", ![o].sess = s],
          ss |-> [st.ss EXCEPT ![s].idmap = @ \cup {o}]]
    ELSE st

\* One object enters the session: a transient object becomes pending and is
\* appended to session.new; anything else is left as it is.
StageOne(st, s, o) ==
    IF st.h[o].state = "transient"
    THEN [h  |-> [st.h EXCEPT ![o].state = "pending", ![o].sess = s],
          ss |-> [st.ss EXCEPT ![s].new = Append(@, o)]]
    ELSE st

RECURSIVE StageSeq(_, _, _)
StageSeq(st, s, os) ==
    IF os = <<>> THEN st
    ELSE StageSeq(StageOne(st, s, Head(os)), s, Tail(os))

\* session.add(o) / session.add_all(os): each object and what it cascades to.
RECURSIVE Stage(_, _, _)
Stage(st, s, os) ==
    IF os = <<>> THEN st
    ELSE Stage(StageSeq(st, s, CascadeSeq(st.h, Head(os))), s, Tail(os))

\* The persistent Address objects of session s that were taken out of their
\* owner's collection (delete-orphan candidates).
Orphans(h, ss, s) ==
    {a \in ss[s].idmap :
        /\ h[a].cls = "Address" /\ h[a].state = "persistent"
        /\ h[a].userLoaded /\ h[a].user = None}

\* An INSERT whose generated key is never read back.
KeyAfterInsertNotFetched(id) == None

\* The primary key attribute after INSERT: the rowid the database generated
\* (cursor.lastrowid).
KeyAfterInsert(id) == id

\* INSERT for the pending objects os of one class, in the order they were
\* added; an Address takes its user_id from the parent it is attached to.
RECURSIVE InsertSeq(_, _, _)
InsertSeq(h, db, os) ==
    IF os = <<>> THEN [h |-> h, db |-> db]
    ELSE LET o == Head(os)
         IN IF h[o].cls = "User"
            THEN LET id == NextId(db.user_account)
                     h1 == [h EXCEPT ![o].id = KeyAfterInsert(id),
                                     ![o].state = "persistent"]
                 IN InsertSeq(h1,
                        [db EXCEPT !.user_account = @ \cup
                            {RowOfUser([h[o] EXCEPT !.id = id])}],
                        Tail(os))
            ELSE LET id == NextId(db.address)
                     fk == IF h[o].userLoaded /\ h[o].user # None
                           THEN h[h[o].user].id ELSE h[o].user_id
                     h1 == [h EXCEPT ![o].id = KeyAfterInsert(id),
                                     ![o].user_id = fk,
                                     ![o].state = "persistent"]
                 IN InsertSeq(h1,
                        [db EXCEPT !.address = @ \cup
                            {RowOfAddress([h[o] EXCEPT !.id = id,
                                                       !.user_id = fk])}],
                        Tail(os))

\* UPDATE for the persistent objects os whose attributes were changed.
RECURSIVE UpdateSeq(_, _, _)
UpdateSeq(h, db, os) ==
    IF os = <<>> THEN [h |-> h, db |-> db]
    ELSE LET o  == Head(os)
             fk == IF h[o].userLoaded
                   THEN (IF h[o].user = None THEN None ELSE h[h[o].user].id)
                   ELSE h[o].user_id
             h1 == [h EXCEPT ![o].dirty = FALSE, ![o].user_id = fk]
         IN IF h[o].cls = "User"
            THEN UpdateSeq(h1,
                    [db EXCEPT !.user_account =
                        {r \in @ : r.id # h[o].id} \cup {RowOfUser(h1[o])}],
                    Tail(os))
            ELSE UpdateSeq(h1,
                    [db EXCEPT !.address =
                        {r \in @ : r.id # h[o].id} \cup {RowOfAddress(h1[o])}],
                    Tail(os))

\* A flush that leaves the removed objects' rows in place.
DeleteRowsSkipped(h, db, D) == [h |-> h, db |-> db]

\* A flush that deletes from user_account only.
DeleteRowsUsersOnly(h, db, D) ==
    [h  |-> [o \in DOMAIN h |->
                IF o \in D THEN [h[o] EXCEPT !.state = "deleted"] ELSE h[o]],
     db |-> [db EXCEPT
                !.user_account = {r \in @ :
                    ~\E o \in D : h[o].cls = "User" /\ h[o].id = r.id}]]

\* DELETE for the objects D: their rows go, the objects become deleted.
DeleteRows(h, db, D) ==
    [h  |-> [o \in DOMAIN h |->
                IF o \in D THEN [h[o] EXCEPT !.state = "deleted"] ELSE h[o]],
     db |-> [db EXCEPT
                !.address = {r \in @ :
                    ~\E o \in D : h[o].cls = "Address" /\ h[o].id = r.id},
                !.user_account = {r \in @ :
                    ~\E o \in D : h[o].cls = "User" /\ h[o].id = r.id}]]

\* A flush that keeps the flushed objects in session.new.
NewAfterFlushKept(new) == new

\* session.new once the pending objects were written.
NewAfterFlush(new) == <<>>

\* The pending objects in the order the flush INSERTs them: the users, then
\* the addresses, each in the order they were added.
PendingInOrder(h, new) ==
    SelectSeq(new, LAMBDA o : h[o].cls = "User")
        \o SelectSeq(new, LAMBDA o : h[o].cls = "Address")

\* The objects the flush DELETEs: what session.delete() marked and, under
\* delete-orphan, the addresses removed from their parent.
Gone(h, ss, s, casc) ==
    ss[s].deleted \cup
        (IF "delete-orphan" \in casc THEN Orphans(h, ss, s) ELSE {})

\* The persistent objects the flush UPDATEs: those with a changed attribute
\* and the addresses whose parent is no longer the one of their user_id.
Moved(h, ss, s, gone) ==
    {o \in ss[s].idmap \ gone :
        /\ h[o].state = "persistent"
        /\ \/ h[o].dirty
           \/ /\ h[o].cls = "Address" /\ h[o].userLoaded
              /\ h[o].user_id #
                   (IF h[o].user = None THEN None ELSE h[h[o].user].id)}

\* The address rows a deleted user leaves behind get user_id = NULL.
NullOrphanedKeys(h, db, gone) ==
    LET goneU == {h[o].id : o \in {g \in gone : h[g].cls = "User"}}
        goneA == {h[o].id : o \in {g \in gone : h[g].cls = "Address"}}
    IN [db EXCEPT !.address =
            {IF r.user_id \in goneU /\ r.id \notin goneA
             THEN [r EXCEPT !.user_id = None] ELSE r : r \in @}]

\* The outcome of a flush that ended with the heap h and the tables db.  err
\* is the IntegrityError of a NULL written to address.user_id, which both
\* scripts declare nullable=False.
FlushResult(h, db, ss, s, emits) ==
    [h   |-> h,
     db  |-> db,
     ss  |-> [ss EXCEPT ![s].new = NewAfterFlush(@),
                        ![s].idmap = @ \cup SeqToSet(ss[s].new),
                        ![s].intrans = @ \/ emits],
     err |-> IF \E r \in db.address : r.user_id = None
             THEN "IntegrityError" ELSE "none"]

\* The DELETE stage of a flush, after the INSERTs and UPDATEs gave upd.
FlushDeletes(h, upd, ss, s, gone, emits) ==
    FlushResult(DeleteRows(upd.h, upd.db, gone).h,
                NullOrphanedKeys(h, DeleteRows(upd.h, upd.db, gone).db, gone),
                ss, s, emits)

\* The UPDATE stage of a flush, after the INSERTs gave ins.
FlushUpdates(h, ins, ss, s, gone, moved) ==
    FlushDeletes(h, UpdateSeq(ins.h, ins.db, SetToSeq(moved)), ss, s, gone,
                 ss[s].new # <<>> \/ gone # {} \/ moved # {})

\* The stages of a flush that follow the INSERTs.
FlushPending(h, ins, ss, s, gone) ==
    FlushUpdates(h, ins, ss, s, gone, Moved(ins.h, ss, s, gone))

\* session.flush(): INSERT the pending users, then the pending addresses,
\* UPDATE what was modified, DELETE the orphans (under delete-orphan) and
\* what session.delete() marked.  The flushed objects join the identity map.
Flush(h, ss, s, db, casc) ==
    FlushPending(h, InsertSeq(h, db, PendingInOrder(h, ss[s].new)), ss, s,
                 Gone(h, ss, s, casc))

\* What commit does to one object of the session: a deleted object is
\* detached, every other one is expired and its row is now committed.
AfterCommit(o) ==
    IF o.state = "deleted"
    THEN [o EXCEPT !.state = "detached", !.sess = None, !.committed = FALSE]
    ELSE [o EXCEPT !.expired = TRUE, !.committed = TRUE,
                   !.userLoaded = FALSE, !.addrLoaded = FALSE]

\* What close() does to one object of the session: it is detached.
AfterClose(o) ==
    IF o.state \in {"persistent", "deleted"}
    THEN [o EXCEPT !.state = "detached", !.sess = None]
    ELSE [o EXCEPT !.state = "transient", !.sess = None]

\* The object session s holds for the row id of class cls, or None.
Lookup(h, ss, s, cls, id) ==
    LET M == {o \in ss[s].idmap :
                h[o].cls = cls /\ h[o].id = id /\ h[o].state = "persistent"}
    IN IF M = {} THEN None ELSE CHOOSE o \in M : TRUE

\* The loader, for one row: the object of the identity map when there is
\* one (refreshed from the row if it was expired), else a new instance.
LoadOne(st, s, cls, r, isCommitted) ==
    LET o == Lookup(st.h, st.ss, s, cls, r.id)
    IN IF o # None
       THEN [h   |-> IF st.h[o].expired
                     THEN [st.h EXCEPT
                             ![o].expired = FALSE,
                             ![o].name = IF cls = "User" THEN r.name ELSE @,
                             ![o].fullname =
                                 IF cls = "User" THEN r.fullname ELSE @,
                             ![o].email_address =
                                 IF cls = "Address" THEN r.email_address ELSE @,
                             ![o].user_id =
                                 IF cls = "Address" THEN r.user_id ELSE @]
                     ELSE st.h,
             ss  |-> st.ss,
             out |-> Append(st.out, o)]
       ELSE [h   |-> Append(st.h,
                        IF cls = "User" THEN UserOfRow(r, s, isCommitted)
                        ELSE AddressOfRow(r, s, isCommitted)),
             ss  |-> [st.ss EXCEPT ![s].idmap = @ \cup {Len(st.h) + 1}],
             out |-> Append(st.out, Len(st.h) + 1)]

\* The loader, for the rows of one class with the ids in ids, by id.
RECURSIVE LoadSeq(_, _, _, _, _, _)
LoadSeq(st, s, cls, rows, ids, cdb) ==
    IF ids = <<>> THEN st
    ELSE LET r == RowById(rows, Head(ids))
             isC == r \in (IF cls = "User" THEN cdb.user_account
                           ELSE cdb.address)
         IN LoadSeq(LoadOne(st, s, cls, r, isC), s, cls, rows, Tail(ids), cdb)

\* The lazy load of u.addresses: SELECT the address rows whose user_id is
\* u.id and hand out, for each, the object of the identity map or a new one.
LazyLoad(h, ss, s, db, u, cdb) ==
    IF h[u].addrLoaded THEN [h |-> h, ss |-> ss]
    ELSE LET ids == {r.id : r \in {a \in db.address : a.user_id = h[u].id}}
             st  == LoadSeq([h |-> h, ss |-> ss, out |-> <<>>], s, "Address",
                            db.address, SetToSeq(ids), cdb)
         IN [h  |-> [st.h EXCEPT ![u].addresses = SeqToSet(st.out),
                                 ![u].addrLoaded = TRUE],
             ss |-> st.ss]

-----------------------------------------------------------------------------
\* Statements and queries

\* The FROM list a SELECT nested in a statement renders with.  A subquery
\* given .correlate(...) omits the named tables that the enclosing statement
\* selects from; any other subquery with more than one FROM omits every table
\* of the enclosing statement (auto-correlation).
DisplayFroms(sub, enclosing) ==
    IF ~sub.auto THEN sub.froms \ (sub.correlate \cap enclosing)
    ELSE IF Cardinality(sub.froms) > 1 THEN sub.froms \ enclosing
    ELSE sub.froms

\* str(stmt): InvalidRequestError when auto-correlation leaves a nested
\* SELECT without any FROM clause, no error otherwise.
CompileError(stmt) ==
    IF \E sub \in stmt.subs :
          /\ sub.auto /\ Cardinality(sub.froms) > 1
          /\ DisplayFroms(sub, stmt.froms) = {}
    THEN "InvalidRequestError"
    ELSE "none"

\* The rows of user_account joined to address on address.user_id.
JoinRows(db) ==
    {[name |-> u.name, email_address |-> a.email_address,
      address_count |-> Cardinality({b \in db.address : b.user_id = u.id})] :
        <<u, a>> \in {p \in db.user_account \X db.address :
                          p[2].user_id = p[1].id}}

\* SELECT id FROM user_account WHERE name = :username, as a scalar: the id of
\* the first matching row, NULL when there is none.
ScalarUserId(db, username) ==
    LET M == {r.id : r \in {u \in db.user_account : u.name = username}}
    IN IF M = {} THEN None ELSE MinOf(M)

\* What a Core SELECT returns.
EvalCore(q, db) ==
    CASE q.kind = "const" ->
            [kind |-> "const", rows |-> <<q.value>>]
      [] q.kind = "some_table" ->
            [kind |-> "some_table",
             rows |-> SelectSeq(db.some_table, LAMBDA r : q.any \/ r.y > q.gt)]
      [] q.kind = "users" ->
            [kind |-> "users",
             rows |-> {r \in db.user_account : q.any \/ r.name \in q.names}]
      [] q.kind = "users_by_count" ->
            [kind |-> "names",
             rows |-> {r.name : r \in {u \in db.user_account :
                 LET n == Cardinality({a \in db.address : a.user_id = u.id})
                 IN IF q.many THEN n > 1 ELSE n = 0}}]
      [] q.kind = "join" ->
            [kind |-> "join",
             rows |-> {r \in JoinRows(db) : q.any \/ r.name \in q.names}]
      [] q.kind = "count_filter" ->
            [kind |-> "counts",
             rows |-> [n \in q.names |->
                 Cardinality({r \in JoinRows(db) : r.name = n})]]

\* The ids of the user_account rows an ORM SELECT loads as User entities.
QUsers(q, db) ==
    CASE q.kind = "user" ->
            {r.id : r \in {u \in db.user_account : q.any \/ u.name \in q.names}}
      [] q.kind = "user_address_notnet" ->
            {r.id : r \in {u \in db.user_account :
                \E a \in db.address :
                    a.user_id = u.id /\ a.email_address \notin DotNet}}
      [] OTHER -> {}

\* The ids of the address rows an ORM SELECT loads as Address entities.
QAddrs(q, db) ==
    CASE q.kind = "address" ->
            {r.id : r \in {a \in db.address :
                /\ \E u \in db.user_account :
                      u.id = a.user_id /\ (q.any \/ u.name \in q.names)
                /\ (q.any \/ a.email_address \in q.emails)}}
      [] q.kind = "user_address_notnet" ->
            {r.id : r \in {a \in db.address :
                /\ \E u \in db.user_account : u.id = a.user_id
                /\ a.email_address \notin DotNet}}
      [] OTHER -> {}

\* The ids a result hands out: all of them, or the first one for .first().
Fetched(ids, first) ==
    IF first /\ ids # {} THEN <<MinOf(ids)>> ELSE SetToSeq(ids)

-----------------------------------------------------------------------------
\* The scripts, statement by statement

I(op, line, args) == [op |-> op, line |-> line] @@ args

NoArgs == [none |-> TRUE]

UserQ(ns) == [kind |-> "user", any |-> FALSE, names |-> ns]

AllUsersQ == [kind |-> "user", any |-> TRUE, names |-> {}]

QuickStart == <<
    I("create_all", 43, [tables |-> {"user_account", "address"}]),
    I("sess_open", 48, [scoped |-> TRUE]),
    I("construct", 49, [var |-> "spongebob", name |-> "spongebob",
        fullname |-> "Spongebob Squarepants",
        emails |-> <<"spongebob@bikinibottom.net">>]),
    I("construct", 54, [var |-> "sandy", name |-> "sandy",
        fullname |-> "Sandy Cheeks",
        emails |-> <<"sandy@bikinibottom.net", "sandy@squirrelpower.org">>]),
    I("construct", 62, [var |-> "patrick", name |-> "patrick",
        fullname |-> "Patrick Star", emails |-> <<>>]),
    I("sess_add", 64, [vars |-> <<"spongebob", "sandy", "patrick">>]),
    I("sess_commit", 66, NoArgs),
    I("sess_exit", 66, NoArgs),
    I("sess_open", 70, [scoped |-> FALSE]),
    I("sess_select", 72, [q |-> UserQ({"spongebob", "sandy"}),
        first |-> FALSE, one |-> FALSE, uvar |-> "user", avar |-> ""]),
    I("sess_select", 82, [q |-> [kind |-> "address", any |-> FALSE,
            names |-> {"sandy"}, emails |-> {"sandy@bikinibottom.net"}],
        first |-> FALSE, one |-> TRUE, uvar |-> "", avar |-> "sandy_address"]),
    I("sess_select", 87, [q |-> UserQ({"patrick"}),
        first |-> FALSE, one |-> TRUE, uvar |-> "patrick", avar |-> ""]),
    I("load_addresses", 89, [var |-> "patrick"]),
    I("construct_address", 89, [var |-> "_arg",
        email |-> "patrickstar@bikinibottom.net"]),
    I("append", 89, [var |-> "patrick", item |-> "_arg"]),
    I("setattr", 91, [var |-> "sandy_address",
        value |-> "sandy_cheeks@bikinibottom.net"]),
    I("sess_commit", 92, NoArgs),
    I("sess_get", 96, [cls |-> "User", id |-> 2, var |-> "sandy"]),
    I("load_addresses", 97, [var |-> "sandy"]),
    I("remove", 97, [var |-> "sandy", item |-> "sandy_address"]),
    I("sess_flush", 98, NoArgs),
    I("sess_delete", 99, [var |-> "patrick"]),
    I("sess_commit", 100, NoArgs) >>

\* A statement that selects from the given tables and nests no SELECT.
Plain(froms) == [froms |-> froms, subs |-> {}]

\* A statement over froms that nests a SELECT over subfroms.
Nested(froms, subfroms) ==
    [froms |-> froms,
     subs |-> {[froms |-> subfroms, auto |-> TRUE, correlate |-> {}]}]

\* The same with .correlate(tables) on the nested SELECT.
Correlated(froms, subfroms, tables) ==
    [froms |-> froms,
     subs |-> {[froms |-> subfroms, auto |-> FALSE, correlate |-> tables]}]

Tutorial == <<
    I("connect", 11, NoArgs),
    I("conn_select", 12, [q |-> [kind |-> "const", value |-> "hello world everybody"], stmt |-> Plain({})]),
    I("conn_exit", 13, NoArgs),
    I("connect", 16, NoArgs),
    I("conn_ddl", 17, [table |-> "some_table"]),
    I("conn_insert_some", 18, [rows |-> <<[x |-> 1, y |-> 1], [x |-> 2, y |-> 4]>>]),
    I("conn_commit", 22, NoArgs),
    I("conn_exit", 22, NoArgs),
    I("begin", 25, NoArgs),
    I("conn_insert_some", 26, [rows |-> <<[x |-> 6, y |-> 8], [x |-> 9, y |-> 10]>>]),
    I("conn_exit", 29, NoArgs),
    I("connect", 32, NoArgs),
    I("conn_select", 33, [q |-> [kind |-> "some_table", any |-> TRUE, gt |-> 0], stmt |-> Plain({"some_table"})]),
    I("conn_exit", 35, NoArgs),
    I("connect", 38, NoArgs),
    I("conn_select", 39, [q |-> [kind |-> "some_table", any |-> TRUE, gt |-> 0], stmt |-> Plain({"some_table"})]),
    I("conn_exit", 41, NoArgs),
    I("connect", 44, NoArgs),
    I("conn_select", 45, [q |-> [kind |-> "some_table", any |-> TRUE, gt |-> 0], stmt |-> Plain({"some_table"})]),
    I("conn_exit", 48, NoArgs),
    I("connect", 51, NoArgs),
    I("conn_select", 52, [q |-> [kind |-> "some_table", any |-> TRUE, gt |-> 0], stmt |-> Plain({"some_table"})]),
    I("conn_exit", 58, NoArgs),
    I("connect", 61, NoArgs),
    I("conn_select", 62, [q |-> [kind |-> "some_table", any |-> TRUE, gt |-> 0], stmt |-> Plain({"some_table"})]),
    I("conn_exit", 66, NoArgs),
    I("connect", 69, NoArgs),
    I("conn_select", 70, [q |-> [kind |-> "some_table", any |-> FALSE, gt |-> 2], stmt |-> Plain({"some_table"})]),
    I("conn_exit", 73, NoArgs),
    I("connect", 76, NoArgs),
    I("conn_insert_some", 77, [rows |-> <<[x |-> 11, y |-> 12], [x |-> 13, y |-> 14]>>]),
    I("conn_commit", 81, NoArgs),
    I("conn_exit", 81, NoArgs),
    I("sess_open", 88, [scoped |-> TRUE]),
    I("sess_execute", 89, [q |-> [kind |-> "some_table", any |-> FALSE, gt |-> 6], stmt |-> Plain({"some_table"}), first |-> FALSE]),
    I("sess_exit", 91, NoArgs),
    I("sess_open", 93, [scoped |-> TRUE]),
    I("sess_update_some", 94, [rows |-> <<[x |-> 9, y |-> 11], [x |-> 13, y |-> 15]>>]),
    I("sess_commit", 98, NoArgs),
    I("sess_exit", 98, NoArgs),
    I("create_all", 127, [tables |-> {"user_account", "address"}]),
    I("construct", 167, [var |-> "sandy", name |-> "sandy", fullname |-> "Sandy Cheeks", emails |-> <<>>]),
    I("create_all", 170, [tables |-> {"user_account", "address"}]),
    I("create_all", 171, [tables |-> {"user_account", "address"}]),
    I("reflect", 176, [table |-> "some_table"]),
    I("print", 187, [stmt |-> Plain({"user_account"})]),
    I("print", 188, [stmt |-> Plain({"user_account"})]),
    I("connect", 190, NoArgs),
    I("conn_insert_users", 191, [rows |-> <<[name |-> "spongebob", fullname |-> "Spongebob Squarepants"]>>]),
    I("conn_commit", 192, NoArgs),
    I("conn_exit", 192, NoArgs),
    I("connect", 195, NoArgs),
    I("conn_insert_users", 196, [rows |-> <<[name |-> "sandy", fullname |-> "Sandy Cheeks"], [name |-> "patrick", fullname |-> "Patrick Star"], [name |-> "squidward", fullname |-> "Squidward T"]>>]),
    I("conn_commit", 204, NoArgs),
    I("conn_exit", 204, NoArgs),
    I("connect", 214, NoArgs),
    I("conn_insert_addresses", 215, [rows |-> <<[username |-> "spongebob", email_address |-> "spongebob@bikinibottom.net"], [username |-> "sandy", email_address |-> "sandy@bikinibottom.net"], [username |-> "sandy", email_address |-> "sandy@squirrelpower.org"]>>]),
    I("conn_commit", 226, NoArgs),
    I("conn_exit", 226, NoArgs),
    I("print", 232, [stmt |-> Nested({"address"}, {"user_account"})]),
    I("print", 237, [stmt |-> Plain({"address"})]),
    I("print", 243, [stmt |-> Nested({"address"}, {"user_account"})]),
    I("print", 248, [stmt |-> Plain({"user_account"})]),
    I("connect", 250, NoArgs),
    I("conn_select", 251, [q |-> [kind |-> "users", any |-> FALSE, names |-> {"spongebob"}], stmt |-> Plain({"user_account"})]),
    I("conn_exit", 252, NoArgs),
    I("sess_open", 255, [scoped |-> TRUE]),
    I("sess_select", 256, [q |-> UserQ({"spongebob"}), first |-> FALSE, one |-> FALSE, uvar |-> "", avar |-> ""]),
    I("sess_exit", 257, NoArgs),
    I("print", 260, [stmt |-> Plain({"user_account"})]),
    I("print", 262, [stmt |-> Plain({"user_account"})]),
    I("print", 266, [stmt |-> Plain({"user_account"})]),
    I("sess_select", 268, [q |-> AllUsersQ, first |-> TRUE, one |-> FALSE, uvar |-> "", avar |-> ""]),
    I("sess_select", 273, [q |-> AllUsersQ, first |-> TRUE, one |-> FALSE, uvar |-> "user", avar |-> ""]),
    I("print", 274, [stmt |-> Plain({"user_account"})]),
    I("sess_execute", 276, [q |-> [kind |-> "users", any |-> TRUE, names |-> {}], stmt |-> Plain({"user_account"}), first |-> TRUE]),
    I("sess_select", 278, [q |-> [kind |-> "address", any |-> TRUE, names |-> {}, emails |-> {}], first |-> FALSE, one |-> FALSE, uvar |-> "", avar |-> ""]),
    I("connect", 288, NoArgs),
    I("conn_select", 289, [q |-> [kind |-> "users", any |-> TRUE, names |-> {}], stmt |-> Plain({"user_account"})]),
    I("conn_exit", 290, NoArgs),
    I("connect", 295, NoArgs),
    I("conn_select", 296, [q |-> [kind |-> "users", any |-> TRUE, names |-> {}], stmt |-> Plain({"user_account"})]),
    I("conn_exit", 296, NoArgs),
    I("connect", 301, NoArgs),
    I("conn_select", 302, [q |-> [kind |-> "users", any |-> TRUE, names |-> {}], stmt |-> Plain({"user_account"})]),
    I("conn_exit", 303, NoArgs),
    I("print", 306, [stmt |-> Plain({"user_account"})]),
    I("print", 308, [stmt |-> Plain({"address"})]),
    I("print", 310, [stmt |-> Plain({"user_account"})]),
    I("print", 312, [stmt |-> Plain({"user_account", "address"})]),
    I("print", 318, [stmt |-> Plain({"user_account", "address"})]),
    I("print", 328, [stmt |-> Plain({"user_account", "address"})]),
    I("print", 338, [stmt |-> Plain({"user_account"})]),
    I("print", 343, [stmt |-> Plain({"user_account"})]),
    I("print", 344, [stmt |-> Plain({"user_account", "address"})]),
    I("print", 349, [stmt |-> Plain({"user_account", "address"})]),
    I("print", 356, [stmt |-> Plain({"user_account", "address"})]),
    I("print", 362, [stmt |-> Plain({"user_account", "address"})]),
    I("print", 370, [stmt |-> Plain({"user_account"})]),
    I("print", 373, [stmt |-> Plain({"user_account", "address"})]),
    I("print", 380, [stmt |-> Plain({"user_account", "address"})]),
    I("print", 384, [stmt |-> Plain({"user_account", "address"})]),
    I("print", 394, [stmt |-> Plain({"user_account"})]),
    I("print", 398, [stmt |-> Plain({"user_account"})]),
    I("print", 403, [stmt |-> Plain({"user_account"})]),
    I("connect", 405, NoArgs),
    I("conn_select", 406, [q |-> [kind |-> "users_by_count", many |-> TRUE], stmt |-> Plain({"user_account", "address"})]),
    I("conn_exit", 412, NoArgs),
    I("print", 421, [stmt |-> Plain({"address"})]),
    I("print", 426, [stmt |-> Plain({"user_account"})]),
    I("print", 436, [stmt |-> Plain({"user_account", "address"})]),
    I("print", 450, [stmt |-> Plain({"address"})]),
    I("print", 451, [stmt |-> Nested({}, {"address"})]),
    I("print", 453, [stmt |-> Nested({"user_account"}, {"address"})]),
    I("print", 465, [stmt |-> Nested({"user_account"}, {"address"})]),
    I("sess_open", 475, [scoped |-> TRUE]),
    I("sess_select", 476, [q |-> [kind |-> "user_address_notnet"], first |-> FALSE, one |-> FALSE, uvar |-> "user", avar |-> "address"]),
    I("sess_exit", 477, NoArgs),
    I("sess_open", 487, [scoped |-> TRUE]),
    I("sess_select", 488, [q |-> [kind |-> "user_address_notnet"], first |-> FALSE, one |-> FALSE, uvar |-> "user", avar |-> "address"]),
    I("sess_exit", 489, NoArgs),
    I("print", 497, [stmt |-> Plain({"address", "user_account"})]),
    I("print", 498, [stmt |-> Plain({"address", "user_account"})]),
    I("print", 500, [stmt |-> Nested({"user_account"}, {"address", "user_account"})]),
    I("print", 510, [stmt |-> Nested({"user_account", "address"}, {"address", "user_account"})]),
    I("except", 511, NoArgs),
    I("connect", 524, NoArgs),
    I("conn_select", 525, [q |-> [kind |-> "join", any |-> TRUE, names |-> {}], stmt |-> Correlated({"user_account", "address"}, {"address", "user_account"}, {"user_account"})]),
    I("conn_exit", 534, NoArgs),
    I("print", 552, [stmt |-> Nested({"user_account"}, {"address", "user_account"})]),
    I("connect", 559, NoArgs),
    I("conn_select", 560, [q |-> [kind |-> "users", any |-> FALSE, names |-> {"sandy", "spongebob"}], stmt |-> Plain({"user_account"})]),
    I("conn_exit", 561, NoArgs),
    I("connect", 569, NoArgs),
    I("conn_select", 570, [q |-> [kind |-> "join", any |-> FALSE, names |-> {"sandy", "spongebob"}], stmt |-> Nested({"address"}, {"user_account"})]),
    I("conn_exit", 571, NoArgs),
    I("sess_open", 579, [scoped |-> TRUE]),
    I("sess_select", 580, [q |-> UserQ({"sandy", "spongebob"}), first |-> FALSE, one |-> FALSE, uvar |-> "obj", avar |-> ""]),
    I("sess_exit", 581, NoArgs),
    I("sess_open", 585, [scoped |-> TRUE]),
    I("sess_select", 586, [q |-> UserQ({"sandy", "spongebob"}), first |-> FALSE, one |-> FALSE, uvar |-> "obj", avar |-> ""]),
    I("sess_exit", 587, NoArgs),
    I("connect", 596, NoArgs),
    I("conn_select", 597, [q |-> [kind |-> "users_by_count", many |-> TRUE], stmt |-> Nested({"user_account"}, {"address", "user_account"})]),
    I("conn_exit", 598, NoArgs),
    I("connect", 605, NoArgs),
    I("conn_select", 606, [q |-> [kind |-> "users_by_count", many |-> FALSE], stmt |-> Nested({"user_account"}, {"address", "user_account"})]),
    I("conn_exit", 607, NoArgs),
    I("print", 612, [stmt |-> Plain({"user_account"})]),
    I("print", 615, [stmt |-> Plain({})]),
    I("connect", 619, NoArgs),
    I("conn_select", 620, [q |-> [kind |-> "const", value |-> "now"], stmt |-> Plain({})]),
    I("conn_exit", 621, NoArgs),
    I("print", 625, [stmt |-> Plain({"user_account"})]),
    I("print", 628, [stmt |-> Plain({})]),
    I("print", 631, [stmt |-> Plain({})]),
    I("print", 639, [stmt |-> Plain({})]),
    I("print", 650, [stmt |-> Plain({})]),
    I("connect", 666, NoArgs),
    I("conn_select", 667, [q |-> [kind |-> "join", any |-> TRUE, names |-> {}], stmt |-> Plain({"user_account", "address"})]),
    I("conn_exit", 668, NoArgs),
    I("connect", 682, NoArgs),
    I("conn_select", 683, [q |-> [kind |-> "join", any |-> TRUE, names |-> {}], stmt |-> Plain({"user_account", "address"})]),
    I("conn_exit", 684, NoArgs),
    I("print", 691, [stmt |-> Plain({"user_account"})]),
    I("connect", 708, NoArgs),
    I("conn_select", 709, [q |-> [kind |-> "count_filter", names |-> {"sandy", "spongebob"}], stmt |-> Plain({"user_account", "address"})]),
    I("conn_exit", 710, NoArgs),
    I("connect", 714, NoArgs),
    I("conn_select", 715, [q |-> [kind |-> "const", value |-> "two, three"], stmt |-> Plain({})]),
    I("conn_exit", 716, NoArgs),
    I("print", 721, [stmt |-> Plain({})]),
    I("print", 725, [stmt |-> Plain({})]),
    I("connect", 730, NoArgs),
    I("conn_select", 731, [q |-> [kind |-> "users", any |-> TRUE, names |-> {}], stmt |-> Plain({"user_account"})]),
    I("conn_exit", 732, NoArgs),
    I("print", 735, [stmt |-> Plain({})]),
    I("print", 744, [stmt |-> Plain({})]),
    I("print", 755, [stmt |-> Plain({"user_account"})]),
    I("print", 758, [stmt |-> Plain({"user_account"})]),
    I("begin", 767, NoArgs),
    I("conn_update", 768, [rows |-> <<[name |-> "jack", col |-> "name", value |-> "ed"], [name |-> "wendy", col |-> "name", value |-> "mary"], [name |-> "jim", col |-> "name", value |-> "james"]>>]),
    I("conn_exit", 775, NoArgs),
    I("print", 786, [stmt |-> Nested({"user_account"}, {"address", "user_account"})]),
    I("print", 796, [stmt |-> Plain({"user_account", "address"})]),
    I("print", 812, [stmt |-> Plain({"user_account", "address"})]),
    I("print", 818, [stmt |-> Plain({"some_table"})]),
    I("print", 823, [stmt |-> Plain({"user_account"})]),
    I("print", 832, [stmt |-> Plain({"user_account", "address"})]),
    I("begin", 835, NoArgs),
    I("conn_update", 836, [rows |-> <<[name |-> "patrick", col |-> "fullname", value |-> "Patrick McStar"]>>]),
    I("conn_exit", 841, NoArgs),
    I("print", 850, [stmt |-> Plain({"user_account"})]),
    I("print", 857, [stmt |-> Plain({"user_account"})]),
    I("construct", 870, [var |-> "squidward", name |-> "squidward", fullname |-> "Squidward Tentacles", emails |-> <<>>]),
    I("construct", 871, [var |-> "krabs", name |-> "ehkrabs", fullname |-> "Eugene H. Krabs", emails |-> <<>>]),
    I("sess_open", 874, [scoped |-> FALSE]),
    I("sess_add", 875, [vars |-> <<"squidward">>]),
    I("sess_add", 876, [vars |-> <<"krabs">>]),
    I("sess_new", 877, NoArgs),
    I("sess_flush", 883, NoArgs),
    I("getattr", 887, [var |-> "squidward"]),
    I("getattr", 888, [var |-> "krabs"]),
    I("sess_get", 898, [cls |-> "User", id |-> 4, var |-> "some_squidward"]),
    I("is", 903, [left |-> "some_squidward", right |-> "squidward"]),
    I("sess_commit", 906, NoArgs) >>

Prog(sc) == IF sc = "quick_start" THEN QuickStart ELSE Tutorial

\* The index of the first statement of program p at or after the given line.
FirstAt(p, line) == MinOf({i \in 1..Len(p) : p[i].line >= line})

\* The names the scripts bind to mapped instances.
\* "_arg" stands for the argument of a call while the call is evaluated.
Names == {"spongebob", "sandy", "patrick", "sandy_address", "user",
          "address", "obj", "squidward", "krabs", "some_squidward", "_arg"}

\* The try statement of tutorial.py: its body and its handler.
TryLines == 509..510

HandlerLine == 511

InTry(sc, i) == sc = "tutorial" /\ Prog(sc)[i].line \in TryLines

\* A handler that names one exception class only.
CatchesIntegrityErrorOnly(e) == e = "IntegrityError"

\* A bare `except:` catches whatever was raised.
Catches(e) == TRUE

-----------------------------------------------------------------------------
\* The state machine

Init ==
    /\ script \in Scripts
    /\ pc = 1
    /\ halted = FALSE
    /\ exc = "none"
    /\ committed = EmptyDB
    /\ working = EmptyDB
    /\ conn = [open |-> FALSE, mode |-> "none", intrans |-> FALSE]
    /\ sessions = <<>>
    /\ session = None
    /\ heap = <<>>
    /\ names = [n \in Names |-> None]
    /\ result = [kind |-> "none", rows |-> <<>>]

cur == Prog(script)[pc]

Done == ~halted /\ pc = Len(Prog(script)) + 1

At(op) == ~halted /\ pc <= Len(Prog(script)) /\ cur.op = op

\* How a statement ends: the next statement when nothing was raised, the
\* handler when the statement is in the try body and the handler catches the
\* exception, and the end of the script (a traceback) otherwise.
Finish(err) ==
    /\ UNCHANGED script
    /\ IF err = "none"
       THEN pc' = pc + 1 /\ UNCHANGED <<halted, exc>>
       ELSE IF InTry(script, pc) /\ Catches(err)
       THEN /\ pc' = FirstAt(Prog(script), HandlerLine)
            /\ exc' = err
            /\ UNCHANGED halted
       ELSE halted' = TRUE /\ exc' = err /\ UNCHANGED pc

Bind(var, o) == IF var = "" THEN names ELSE [names EXCEPT ![var] = o]

LastOf(sq) == IF sq = <<>> THEN None ELSE sq[Len(sq)]

\* The statements that leave everything but the program counter alone.
Rest == <<committed, working, conn, sessions, session, heap, names, result>>

\* Base.metadata.create_all(engine): CREATE TABLE for the tables that are
\* missing, in a transaction of its own that is committed.
CreateAll ==
    /\ At("create_all")
    /\ Finish("none")
    /\ working' = [working EXCEPT !.tables = @ \cup cur.tables]
    /\ committed' = working'
    /\ UNCHANGED <<conn, sessions, session, heap, names, result>>

\* Session(engine), as the head of a with block or as a plain assignment.
SessionOpen ==
    /\ At("sess_open")
    /\ Finish("none")
    /\ sessions' = Append(sessions, NewSession(cur.scoped))
    /\ session' = Len(sessions) + 1
    /\ UNCHANGED <<committed, working, conn, heap, names, result>>

\* The end of a `with Session(engine) as session` block: session.close().
\* The connection is released (an open transaction is rolled back) and the
\* objects of the session are detached.
SessionExit ==
    /\ At("sess_exit")
    /\ Finish("none")
    /\ LET mine == sessions[session].idmap \cup SeqToSet(sessions[session].new)
       IN /\ heap' = [o \in DOMAIN heap |->
                         IF o \in mine THEN AfterClose(heap[o]) ELSE heap[o]]
          /\ sessions' = [sessions EXCEPT
                            ![session].closed = TRUE,
                            ![session].exited = TRUE,
                            ![session].intrans = FALSE,
                            ![session].new = <<>>,
                            ![session].deleted = {},
                            ![session].idmap = {}]
    /\ working' = IF sessions[session].intrans THEN committed ELSE working
    /\ UNCHANGED <<committed, conn, session, names, result>>

\* name = User(...): a new transient instance (and its Address instances).
Construct ==
    /\ At("construct")
    /\ Finish("none")
    /\ heap' = ConstructUser(heap, cur.name, cur.fullname, cur.emails)
    /\ names' = Bind(cur.var, Len(heap'))
    /\ UNCHANGED <<committed, working, conn, sessions, session, result>>

\* session.add(o) / session.add_all([...]).
SessionAdd ==
    /\ At("sess_add")
    /\ Finish("none")
    /\ LET st == Stage([h |-> heap, ss |-> sessions], session,
                       [i \in 1..Len(cur.vars) |-> names[cur.vars[i]]])
       IN heap' = st.h /\ sessions' = [st.ss EXCEPT ![session].closed = FALSE]
    /\ UNCHANGED <<committed, working, conn, session, names, result>>

\* session.new: the pending objects.
SessionNew ==
    /\ At("sess_new")
    /\ Finish("none")
    /\ result' = [kind |-> "objects", rows |-> sessions[session].new]
    /\ UNCHANGED <<committed, working, conn, sessions, session, heap, names>>

\* session.flush().
SessionFlush ==
    /\ At("sess_flush")
    /\ LET f == Flush(heap, sessions, session, working, Cascade(script))
       IN /\ Finish(f.err)
          /\ IF f.err = "none"
             THEN /\ heap' = f.h
                  /\ sessions' = [f.ss EXCEPT ![session].closed = FALSE]
                  /\ working' = f.db
             ELSE UNCHANGED <<heap, sessions, working>>
    /\ UNCHANGED <<committed, conn, session, names, result>>

\* session.commit(): flush, COMMIT, release the connection, expire every
\* object of the session and drop the deleted ones.
SessionCommit ==
    /\ At("sess_commit")
    /\ LET f == Flush(heap, sessions, session, working, Cascade(script))
           mine == f.ss[session].idmap
       IN /\ Finish(f.err)
          /\ IF f.err = "none"
             THEN /\ heap' = [o \in DOMAIN f.h |->
                                IF o \in mine THEN AfterCommit(f.h[o])
                                ELSE f.h[o]]
                  /\ sessions' = [f.ss EXCEPT
                        ![session].closed = FALSE,
                        ![session].intrans = FALSE,
                        ![session].deleted = {},
                        ![session].idmap =
                            {o \in @ : f.h[o].state # "deleted"}]
                  /\ working' = f.db
                  /\ committed' =
                        IF f.ss[session].intrans THEN f.db ELSE committed
             ELSE UNCHANGED <<heap, sessions, working, committed>>
    /\ UNCHANGED <<conn, session, names, result>>

\* session.execute(select(...)) / session.scalars(select(...)) of mapped
\* entities: autoflush, SELECT, and one instance per row through the identity
\* map.  Without ORDER BY the rows are taken in rowid order, as SQLite scans
\* them.  .one() raises unless exactly one row came back.
SessionSelect ==
    /\ At("sess_select")
    /\ LET f   == Flush(heap, sessions, session, working, Cascade(script))
           us  == LoadSeq([h |-> f.h, ss |-> f.ss, out |-> <<>>], session,
                          "User", f.db.user_account,
                          Fetched(QUsers(cur.q, f.db), cur.first), committed)
           as  == LoadSeq([h |-> us.h, ss |-> us.ss, out |-> <<>>], session,
                          "Address", f.db.address,
                          Fetched(QAddrs(cur.q, f.db), cur.first), committed)
           n   == Len(us.out) + Len(as.out)
           err == IF f.err # "none" THEN f.err
                  ELSE IF cur.one /\ n = 0 THEN "NoResultFound"
                  ELSE IF cur.one /\ n > 1 THEN "MultipleResultsFound"
                  ELSE "none"
       IN /\ Finish(err)
          /\ IF err = "none"
             THEN /\ heap' = as.h
                  /\ sessions' = [as.ss EXCEPT ![session].intrans = TRUE,
                                               ![session].closed = FALSE]
                  /\ working' = f.db
                  /\ names' = [v \in Names |->
                        IF v = cur.uvar /\ us.out # <<>> THEN LastOf(us.out)
                        ELSE IF v = cur.avar /\ as.out # <<>>
                        THEN LastOf(as.out)
                        ELSE names[v]]
                  /\ result' = [kind |-> "objects", rows |-> us.out \o as.out]
             ELSE UNCHANGED <<heap, sessions, working, names, result>>
    /\ UNCHANGED <<committed, conn, session>>

\* name = session.get(cls, id): the object of the identity map when it is
\* there and not expired; otherwise autoflush and SELECT by primary key,
\* giving None when there is no such row.
SessionGet ==
    /\ At("sess_get")
    /\ LET hit == Lookup(heap, sessions, session, cur.cls, cur.id)
           f   == Flush(heap, sessions, session, working, Cascade(script))
           tbl == IF cur.cls = "User" THEN f.db.user_account ELSE f.db.address
           ids == IF cur.id \in Ids(tbl) THEN <<cur.id>> ELSE <<>>
           ld  == LoadSeq([h |-> f.h, ss |-> f.ss, out |-> <<>>], session,
                          cur.cls, tbl, ids, committed)
       IN IF hit # None /\ ~heap[hit].expired
          THEN /\ Finish("none")
               /\ names' = Bind(cur.var, hit)
               /\ result' = [kind |-> "objects", rows |-> <<hit>>]
               /\ UNCHANGED <<heap, sessions, working>>
          ELSE /\ Finish(f.err)
               /\ IF f.err = "none"
                  THEN /\ heap' = ld.h
                       /\ sessions' = [ld.ss EXCEPT ![session].intrans = TRUE,
                                                    ![session].closed = FALSE]
                       /\ working' = f.db
                       /\ names' = Bind(cur.var, LastOf(ld.out))
                       /\ result' = [kind |-> "objects", rows |-> ld.out]
                  ELSE UNCHANGED <<heap, sessions, working, names, result>>
    /\ UNCHANGED <<committed, conn, session>>

\* name.addresses, read: an unloaded collection of an object that is in a
\* session is loaded with a SELECT (an autoflush goes first); an unloaded
\* collection of a detached object raises DetachedInstanceError.
LoadAddresses ==
    /\ At("load_addresses")
    /\ LET u    == names[cur.var]
           s    == heap[u].sess
           att  == heap[u].state \in {"pending", "persistent"}
           f    == IF heap[u].addrLoaded \/ ~att
                   THEN [h |-> heap, ss |-> sessions, db |-> working,
                         err |-> IF heap[u].addrLoaded THEN "none"
                                 ELSE "DetachedInstanceError"]
                   ELSE Flush(heap, sessions, s, working, Cascade(script))
           ll   == IF att THEN LazyLoad(f.h, f.ss, s, f.db, u, committed)
                   ELSE [h |-> f.h, ss |-> f.ss]
       IN /\ Finish(f.err)
          /\ IF f.err = "none"
             THEN /\ heap' = ll.h
                  /\ sessions' = IF att /\ ~heap[u].addrLoaded
                                 THEN [ll.ss EXCEPT ![s].intrans = TRUE,
                                                    ![s].closed = FALSE]
                                 ELSE ll.ss
                  /\ working' = f.db
             ELSE UNCHANGED <<heap, sessions, working>>
    /\ UNCHANGED <<committed, conn, session, names, result>>

\* Address(email_address=...), evaluated as the argument of a call.
ConstructAddress ==
    /\ At("construct_address")
    /\ Finish("none")
    /\ heap' = Append(heap, MkAddress(cur.email))
    /\ names' = Bind(cur.var, Len(heap) + 1)
    /\ UNCHANGED <<committed, working, conn, sessions, session, result>>

\* name.addresses.append(item): the item joins the collection, its user is
\* set (back_populates), and it is cascaded into the session of its owner.
RelAppend ==
    /\ At("append")
    /\ Finish("none")
    /\ LET u    == names[cur.var]
           a    == names[cur.item]
           s    == heap[u].sess
           att  == heap[u].state \in {"pending", "persistent"}
           h1   == Link(heap, u, a)
           st   == IF att /\ "save-update" \in Cascade(script)
                   THEN StageOne([h |-> h1, ss |-> sessions], s, a)
                   ELSE [h |-> h1, ss |-> sessions]
       IN heap' = st.h /\ sessions' = st.ss
    /\ UNCHANGED <<committed, working, conn, session, names, result>>

\* name.addresses.remove(item): list.remove raises ValueError when the item
\* is not in the collection; otherwise the item leaves it and its user is
\* set to None (back_populates).
RelRemove ==
    /\ At("remove")
    /\ LET u    == names[cur.var]
           a    == names[cur.item]
           err  == IF a \notin heap[u].addresses THEN "ValueError" ELSE "none"
       IN /\ Finish(err)
          /\ IF err = "none"
             THEN heap' = Unlink(heap, u, a)
             ELSE UNCHANGED heap
    /\ UNCHANGED <<committed, working, conn, sessions, session, names, result>>

\* name.email_address = value: the object is modified in memory only.
SetAttr ==
    /\ At("setattr")
    /\ Finish("none")
    /\ LET o == names[cur.var]
       IN heap' = [heap EXCEPT ![o].email_address = cur.value,
                               ![o].dirty = (heap[o].state = "persistent")]
    /\ UNCHANGED <<committed, working, conn, sessions, session, names, result>>

\* session.delete(name): the object is marked for deletion; under the
\* delete cascade so are the objects of its addresses collection, which is
\* loaded for that.  Nothing is emitted before the flush.
SessionDelete ==
    /\ At("sess_delete")
    /\ LET o    == names[cur.var]
           ok   == heap[o].state = "persistent" /\ heap[o].sess = session
           casc == "delete" \in Cascade(script) /\ heap[o].cls = "User"
           ll   == IF ok /\ casc
                   THEN LazyLoad(heap, sessions, session, working, o, committed)
                   ELSE [h |-> heap, ss |-> sessions]
           D    == {o} \cup (IF ok /\ casc THEN ll.h[o].addresses ELSE {})
           err  == IF ok THEN "none" ELSE "InvalidRequestError"
       IN /\ Finish(err)
          /\ IF err = "none"
             THEN /\ heap' = ll.h
                  /\ sessions' = [ll.ss EXCEPT
                        ![session].deleted = @ \cup D,
                        ![session].intrans =
                            @ \/ (casc /\ ~heap[o].addrLoaded)]
             ELSE UNCHANGED <<heap, sessions>>
    /\ UNCHANGED <<committed, working, conn, session, names, result>>

\* with engine.connect() as conn: a Connection with no transaction begun.
Connect ==
    /\ At("connect")
    /\ Finish("none")
    /\ conn' = [open |-> TRUE, mode |-> "connect", intrans |-> FALSE]
    /\ UNCHANGED <<committed, working, sessions, session, heap, names, result>>

\* with engine.begin() as conn: a Connection whose block is one transaction.
Begin ==
    /\ At("begin")
    /\ Finish("none")
    /\ conn' = [open |-> TRUE, mode |-> "begin", intrans |-> TRUE]
    /\ UNCHANGED <<committed, working, sessions, session, heap, names, result>>

\* A block exit that rolls back whatever the block was opened with.
ExitOutcomeAlwaysRollback(c, w, k) == k

\* What the database holds once a Connection block is left: the work of an
\* engine.begin() block is committed, the uncommitted work of an
\* engine.connect() block is rolled back.
ExitOutcome(c, w, k) ==
    IF c.mode = "begin" THEN w
    ELSE IF c.intrans THEN k
    ELSE w

\* The end of a `with engine.connect()` / `with engine.begin()` block.
ConnExit ==
    /\ At("conn_exit")
    /\ Finish("none")
    /\ working' = ExitOutcome(conn, working, committed)
    /\ committed' = IF conn.mode = "begin" THEN working' ELSE committed
    /\ conn' = [open |-> FALSE, mode |-> "none", intrans |-> FALSE]
    /\ UNCHANGED <<sessions, session, heap, names, result>>

\* What is committed by COMMIT: the rows as the connection sees them.
CommitOutcome(w, k) == w

\* conn.commit().
ConnCommit ==
    /\ At("conn_commit")
    /\ Finish("none")
    /\ committed' = CommitOutcome(working, committed)
    /\ working' = committed'
    /\ conn' = [conn EXCEPT !.intrans = FALSE]
    /\ UNCHANGED <<sessions, session, heap, names, result>>

\* conn.execute(text("CREATE TABLE ...")): sqlite3 opens no transaction for
\* DDL, so outside a transaction the table is there for good at once.
ConnDDL ==
    /\ At("conn_ddl")
    /\ LET err == IF cur.table \in working.tables THEN "OperationalError"
                  ELSE "none"
       IN /\ Finish(err)
          /\ IF err = "none"
             THEN /\ working' = [working EXCEPT !.tables = @ \cup {cur.table}]
                  /\ committed' =
                        IF working = committed THEN working' ELSE committed
                  /\ conn' = [conn EXCEPT !.intrans = TRUE]
             ELSE UNCHANGED <<working, committed, conn>>
    /\ UNCHANGED <<sessions, session, heap, names, result>>

\* conn.execute(text("INSERT INTO some_table ..."), [rows]): executemany.
ConnInsertSome ==
    /\ At("conn_insert_some")
    /\ LET err == IF "some_table" \in working.tables THEN "none"
                  ELSE "OperationalError"
       IN /\ Finish(err)
          /\ IF err = "none"
             THEN /\ working' = [working EXCEPT !.some_table = @ \o cur.rows]
                  /\ conn' = [conn EXCEPT !.intrans = TRUE]
             ELSE UNCHANGED <<working, conn>>
    /\ UNCHANGED <<committed, sessions, session, heap, names, result>>

\* INSERT INTO user_account (name, fullname), one row after the other.
RECURSIVE InsertUsers(_, _)
InsertUsers(db, rows) ==
    IF rows = <<>> THEN db
    ELSE InsertUsers(
            [db EXCEPT !.user_account = @ \cup
                {[id |-> NextId(db.user_account), name |-> Head(rows).name,
                  fullname |-> Head(rows).fullname]}],
            Tail(rows))

\* conn.execute(insert(user_table), [rows]).
ConnInsertUsers ==
    /\ At("conn_insert_users")
    /\ LET err == IF "user_account" \in working.tables THEN "none"
                  ELSE "OperationalError"
       IN /\ Finish(err)
          /\ IF err = "none"
             THEN /\ working' = InsertUsers(working, cur.rows)
                  /\ conn' = [conn EXCEPT !.intrans = TRUE]
             ELSE UNCHANGED <<working, conn>>
    /\ UNCHANGED <<committed, sessions, session, heap, names, result>>

\* INSERT INTO address (user_id, email_address) VALUES ((SELECT id FROM
\* user_account WHERE name = :username), :email_address), row after row.
RECURSIVE InsertAddresses(_, _)
InsertAddresses(db, rows) ==
    IF rows = <<>> THEN db
    ELSE InsertAddresses(
            [db EXCEPT !.address = @ \cup
                {[id |-> NextId(db.address),
                  user_id |-> ScalarUserId(db, Head(rows).username),
                  email_address |-> Head(rows).email_address]}],
            Tail(rows))

\* conn.execute(insert(address_table).values(user_id=scalar_subq), [rows]);
\* address.user_id is NOT NULL.
ConnInsertAddresses ==
    /\ At("conn_insert_addresses")
    /\ LET db  == InsertAddresses(working, cur.rows)
           err == IF "address" \notin working.tables THEN "OperationalError"
                  ELSE IF \E r \in db.address : r.user_id = None
                  THEN "IntegrityError"
                  ELSE "none"
       IN /\ Finish(err)
          /\ IF err = "none"
             THEN /\ working' = db
                  /\ conn' = [conn EXCEPT !.intrans = TRUE]
             ELSE UNCHANGED <<working, conn>>
    /\ UNCHANGED <<committed, sessions, session, heap, names, result>>

\* UPDATE user_account SET col = value WHERE name = :name, for each
\* parameter set in turn.
RECURSIVE UpdateUsers(_, _)
UpdateUsers(rows, params) ==
    IF params = <<>> THEN rows
    ELSE LET p == Head(params)
         IN UpdateUsers(
                {IF r.name # p.name THEN r
                 ELSE IF p.col = "name" THEN [r EXCEPT !.name = p.value]
                 ELSE [r EXCEPT !.fullname = p.value] : r \in rows},
                Tail(params))

\* conn.execute(update(user_table)...).
ConnUpdate ==
    /\ At("conn_update")
    /\ Finish("none")
    /\ working' = [working EXCEPT
                     !.user_account = UpdateUsers(@, cur.rows)]
    /\ conn' = [conn EXCEPT !.intrans = TRUE]
    /\ result' = [kind |-> "rowcount",
                  rows |-> <<Cardinality({r \in working.user_account :
                        \E i \in 1..Len(cur.rows) : cur.rows[i].name = r.name})>>]
    /\ UNCHANGED <<committed, sessions, session, heap, names>>

\* conn.execute(select ...): the statement is compiled and run.
ConnSelect ==
    /\ At("conn_select")
    /\ LET err == CompileError(cur.stmt)
       IN /\ Finish(err)
          /\ IF err = "none"
             THEN /\ result' = EvalCore(cur.q, working)
                  /\ conn' = [conn EXCEPT !.intrans = TRUE]
             ELSE UNCHANGED <<result, conn>>
    /\ UNCHANGED <<committed, working, sessions, session, heap, names>>

\* The first row of a set of table rows, by rowid.
FirstRow(rows) ==
    IF rows = {} THEN {}
    ELSE {CHOOSE r \in rows : \A o \in rows : r.id <= o.id}

\* session.execute(...) of a statement that returns plain rows.
SessionExecute ==
    /\ At("sess_execute")
    /\ LET f   == Flush(heap, sessions, session, working, Cascade(script))
           err == IF f.err # "none" THEN f.err ELSE CompileError(cur.stmt)
           r   == EvalCore(cur.q, f.db)
       IN /\ Finish(err)
          /\ IF err = "none"
             THEN /\ heap' = f.h
                  /\ working' = f.db
                  /\ sessions' = [f.ss EXCEPT ![session].intrans = TRUE,
                                              ![session].closed = FALSE]
                  /\ result' = IF cur.first
                               THEN [r EXCEPT !.rows = FirstRow(@)] ELSE r
             ELSE UNCHANGED <<heap, working, sessions, result>>
    /\ UNCHANGED <<committed, conn, session, names>>

\* UPDATE some_table SET y = :y WHERE x = :x, for each parameter set in turn.
RECURSIVE UpdateSome(_, _)
UpdateSome(rows, params) ==
    IF params = <<>> THEN rows
    ELSE UpdateSome(
            [i \in 1..Len(rows) |->
                IF rows[i].x = Head(params).x
                THEN [rows[i] EXCEPT !.y = Head(params).y] ELSE rows[i]],
            Tail(params))

\* session.execute(text("UPDATE some_table ..."), [rows]).
SessionUpdateSome ==
    /\ At("sess_update_some")
    /\ Finish("none")
    /\ working' = [working EXCEPT !.some_table = UpdateSome(@, cur.rows)]
    /\ sessions' = [sessions EXCEPT ![session].intrans = TRUE,
                                    ![session].closed = FALSE]
    /\ UNCHANGED <<committed, conn, session, heap, names, result>>

\* Table("some_table", metadata_obj, autoload_with=engine).
Reflect ==
    /\ At("reflect")
    /\ Finish(IF cur.table \in working.tables THEN "none"
              ELSE "NoSuchTableError")
    /\ UNCHANGED Rest

\* print(stmt) / stmt.compile(): the statement is rendered as a string.
Render ==
    /\ At("print")
    /\ Finish(CompileError(cur.stmt))
    /\ UNCHANGED Rest

\* except: pass -- reached by a raise in the try body (the exception is
\* dropped) or by falling out of the body (nothing to do).
Except ==
    /\ At("except")
    /\ pc' = pc + 1
    /\ exc' = "none"
    /\ UNCHANGED <<script, halted>>
    /\ UNCHANGED Rest

\* name.id: the primary key attribute of an instance.
GetAttr ==
    /\ At("getattr")
    /\ Finish("none")
    /\ result' = [kind |-> "value", rows |-> <<heap[names[cur.var]].id>>]
    /\ UNCHANGED <<committed, working, conn, sessions, session, heap, names>>

\* left is right: object identity.
Is ==
    /\ At("is")
    /\ Finish("none")
    /\ result' = [kind |-> "value",
                  rows |-> <<names[cur.left] = names[cur.right]>>]
    /\ UNCHANGED <<committed, working, conn, sessions, session, heap, names>>

Next ==
    \/ CreateAll
    \/ SessionOpen
    \/ SessionExit
    \/ Construct
    \/ SessionAdd
    \/ SessionNew
    \/ SessionFlush
    \/ SessionCommit
    \/ SessionSelect
    \/ SessionGet
    \/ LoadAddresses
    \/ ConstructAddress
    \/ RelAppend
    \/ RelRemove
    \/ SetAttr
    \/ SessionDelete
    \/ Connect
    \/ Begin
    \/ ConnExit
    \/ ConnCommit
    \/ ConnDDL
    \/ ConnInsertSome
    \/ ConnInsertUsers
    \/ ConnInsertAddresses
    \/ ConnUpdate
    \/ ConnSelect
    \/ SessionExecute
    \/ SessionUpdateSome
    \/ Reflect
    \/ Render
    \/ Except
    \/ GetAttr
    \/ Is

Spec == Init /\ [][Next]_vars

-----------------------------------------------------------------------------
\* Properties

\* The index, in script sc, of the statement of the given kind on a line.
IndexOf(sc, line, op) ==
    CHOOSE i \in 1..Len(Prog(sc)) :
        Prog(sc)[i].line = line /\ Prog(sc)[i].op = op

\* The run is of script sc and has executed that statement.
Executed(sc, line, op) == script = sc /\ pc > IndexOf(sc, line, op)

\* The run is of script sc and that statement is the one just executed.
JustExecuted(sc, line, op) == script = sc /\ pc = IndexOf(sc, line, op) + 1

Users == {o \in DOMAIN heap : heap[o].cls = "User"}

Addresses == {o \in DOMAIN heap : heap[o].cls = "Address"}

\* C1: in tutorial.py, once session.get(User, 4) has run, some_squidward is
\* the very object squidward, and the row with primary key 4 is the row the
\* flush inserted for squidward.
C1_GetReturnsSquidward ==
    Executed("tutorial", 898, "sess_get") =>
        /\ names["some_squidward"] = names["squidward"]
        /\ heap[names["squidward"]].id = 4

\* C2: every mapped object goes through its lifecycle in order.  An object
\* the script constructs starts transient; it becomes pending only from
\* transient, flushed (persistent) only from pending, committed only once
\* flushed; its column attributes change and it is deleted only while it is
\* persistent.  An object the loader builds stands for a row that exists
\* and starts persistent.
C2_LifecycleInOrder ==
    [][\A o \in DOMAIN heap' :
         LET had == o \in DOMAIN heap
             now == heap'[o]
             was == IF had THEN heap[o] ELSE now
         IN /\ ~had => now.state = (IF now.origin = "constructed"
                                    THEN "transient" ELSE "persistent")
            /\ ~had => ~now.committed \/ now.origin = "loaded"
            /\ had /\ now.state # was.state =>
                  \/ was.state = "transient" /\ now.state = "pending"
                  \/ was.state = "pending" /\ now.state = "persistent"
                  \/ was.state = "persistent"
                        /\ now.state \in {"deleted", "detached"}
                  \/ was.state = "deleted" /\ now.state = "detached"
            /\ had /\ now.committed /\ ~was.committed =>
                  /\ was.state \in {"pending", "persistent"}
                  /\ now.state = "persistent"
            /\ had /\ ( \/ now.name # was.name
                        \/ now.fullname # was.fullname
                        \/ now.email_address # was.email_address ) =>
                  was.state = "persistent"
            /\ (\E s \in DOMAIN sessions :
                    o \in sessions'[s].deleted /\ o \notin sessions[s].deleted)
                  => had /\ was.state = "persistent"
      ]_vars

\* C2 witness: quick_start.py has ended; the Address it constructed for
\* patrick was staged, flushed, committed and then deleted, and the loaded
\* sandy_address was modified.
C2_Witness ==
    /\ script = "quick_start" /\ Done
    /\ \E o \in Addresses :
          /\ heap[o].origin = "constructed"
          /\ heap[o].email_address = "patrickstar@bikinibottom.net"
          /\ heap[o].id # None
          /\ heap[o].state = "detached"
    /\ heap[names["sandy_address"]].email_address =
          "sandy_cheeks@bikinibottom.net"

\* C3: when a script has ended, every Session it opened is closed.
C3_SessionsClosedAtEnd ==
    Done => \A s \in DOMAIN sessions : sessions[s].closed

Pending(h, o) == h[o].state = "pending"

\* The table an object of class cls is written to.
TableOf(db, cls) == IF cls = "User" THEN db.user_account ELSE db.address

\* No row of db carries the attribute values of the object o.
NoRowFor(db, o) ==
    IF o.cls = "User"
    THEN ~\E r \in db.user_account :
            r.name = o.name /\ r.fullname = o.fullname
    ELSE ~\E r \in db.address : r.email_address = o.email_address

\* C4: unit of work.  A pending object is in session.new, has no primary
\* key and no row; while it stays pending the tables do not change; it
\* leaves the pending state only by session.flush() or session.commit(),
\* which write its row and leave session.new empty.
C4_UnitOfWorkDeferral ==
    [][/\ \A s \in DOMAIN sessions' :
             \A i \in 1..Len(sessions'[s].new) :
                 Pending(heap', sessions'[s].new[i])
       /\ \A o \in DOMAIN heap' :
             Pending(heap', o) =>
                /\ \E i \in 1..Len(sessions'[heap'[o].sess].new) :
                      sessions'[heap'[o].sess].new[i] = o
                /\ heap'[o].id = None
                /\ NoRowFor(working', heap'[o])
       /\ \A o \in DOMAIN heap :
             /\ Pending(heap, o) /\ Pending(heap', o) =>
                   /\ working'.user_account = working.user_account
                   /\ working'.address = working.address
             /\ Pending(heap, o) /\ ~Pending(heap', o) =>
                   /\ cur.op \in {"sess_flush", "sess_commit"}
                   /\ heap'[o].state = "persistent"
                   /\ heap'[o].id # None
                   /\ (IF heap[o].cls = "User" THEN RowOfUser(heap'[o])
                       ELSE RowOfAddress(heap'[o]))
                         \in TableOf(working', heap[o].cls)
                   /\ sessions'[heap[o].sess].new = <<>>
      ]_vars

\* C4 witness: tutorial.py has just flushed; squidward and krabs were
\* pending, and now session.new is empty and their rows are in the database,
\* uncommitted.
C4_Witness ==
    /\ JustExecuted("tutorial", 883, "sess_flush")
    /\ sessions[session].new = <<>>
    /\ \A n \in {"squidward", "krabs"} :
          /\ heap[names[n]].state = "persistent"
          /\ RowOfUser(heap[names[n]]) \in working.user_account
          /\ RowOfUser(heap[names[n]]) \notin committed.user_account

\* C5: an object that was not flushed yet has no primary key; once
\* tutorial.py has flushed, squidward.id and krabs.id are not None, differ,
\* and are the id of no other row of user_account.
C5_PrimaryKeyAtFlush ==
    /\ \A o \in DOMAIN heap :
          heap[o].state \in {"transient", "pending"} => heap[o].id = None
    /\ Executed("tutorial", 883, "sess_flush") =>
          LET sq == heap[names["squidward"]]
              kr == heap[names["krabs"]]
          IN /\ sq.id # None /\ kr.id # None /\ sq.id # kr.id
             /\ \A r \in working.user_account :
                   /\ r.id = sq.id => r = RowOfUser(sq)
                   /\ r.id = kr.id => r = RowOfUser(kr)
             /\ \A r \in committed.user_account :
                   r.id \in {sq.id, kr.id} => Executed("tutorial", 906, "sess_commit")

\* C5 witness: tutorial.py has flushed and read both ids, while four rows
\* inserted earlier are in user_account.
C5_Witness ==
    /\ JustExecuted("tutorial", 888, "getattr")
    /\ heap[names["squidward"]].id = 5
    /\ result.rows = <<6>>
    /\ Ids(committed.user_account) = {1, 2, 3, 4}

\* C6: in every committed state every address row has a user_id that is not
\* NULL and is the id of a row of user_account.
C6_ReferentialIntegrity ==
    \A a \in committed.address :
        /\ a.user_id # None
        /\ \E u \in committed.user_account : u.id = a.user_id

\* C6 witness: quick_start.py has committed its deletes and address rows
\* remain.
C6_Witness ==
    /\ Executed("quick_start", 100, "sess_commit")
    /\ Cardinality(committed.address) = 2
    /\ Cardinality(committed.user_account) = 2

\* C7: in quick_start.py both sides of the relationship agree.  For a User
\* u with a loaded addresses collection and an Address a: if a.user is
\* loaded, a is in u.addresses exactly when a.user is u; if a.user is still
\* to be loaded, a in u.addresses has the foreign key of u; and no Address
\* is in the collections of two users.
C7_BothSidesInSync ==
    script = "quick_start" =>
        /\ \A u \in Users, a \in Addresses :
              heap[u].addrLoaded =>
                 /\ heap[a].userLoaded =>
                       (a \in heap[u].addresses <=> heap[a].user = u)
                 /\ ~heap[a].userLoaded /\ a \in heap[u].addresses =>
                       heap[a].user_id = heap[u].id
        /\ \A u \in Users : heap[u].addrLoaded => heap[u].addresses \subseteq Addresses
        /\ \A u1 \in Users, u2 \in Users :
              u1 # u2 /\ heap[u1].addrLoaded /\ heap[u2].addrLoaded =>
                 heap[u1].addresses \cap heap[u2].addresses = {}

\* C7 witness: quick_start.py has just removed sandy_address from
\* sandy.addresses, after the append to patrick.addresses.
C7_Witness ==
    /\ JustExecuted("quick_start", 97, "remove")
    /\ heap[names["sandy"]].addrLoaded
    /\ names["sandy_address"] \notin heap[names["sandy"]].addresses
    /\ heap[names["sandy_address"]].userLoaded
    /\ heap[names["sandy_address"]].user = None
    /\ Cardinality(heap[names["sandy"]].addresses) = 1

\* C8: the print(stmt) of the ambiguous statement in the try body raises,
\* the bare except catches it: the script does not stop, the database is as
\* before, the handler is entered with the exception, and from the handler
\* the run goes on to the block of the explicitly correlated query.
C8_FailureCaught ==
    [][/\ script = "tutorial" /\ pc = IndexOf("tutorial", 510, "print") =>
             /\ ~halted'
             /\ exc' = "InvalidRequestError"
             /\ pc' = IndexOf("tutorial", 511, "except")
             /\ working' = working /\ committed' = committed
       /\ script = "tutorial" /\ pc = IndexOf("tutorial", 511, "except") =>
             /\ ~halted'
             /\ exc' = "none"
             /\ pc' = IndexOf("tutorial", 524, "connect")
             /\ working' = working /\ committed' = committed
       /\ script = "tutorial" /\ pc = IndexOf("tutorial", 525, "conn_select") =>
             /\ ~halted'
             /\ result'.kind = "join"
      ]_vars

\* C8 witness: tutorial.py is in the handler with the InvalidRequestError
\* of the failed print, not stopped.
C8_Witness ==
    /\ script = "tutorial"
    /\ pc = IndexOf("tutorial", 511, "except")
    /\ exc = "InvalidRequestError"
    /\ ~halted

\* The rows of some_table inserted by tutorial.py lines 18-21 and 26-29.
CommitAsYouGoRows == <<[x |-> 1, y |-> 1], [x |-> 2, y |-> 4]>>

BeginOnceRows == <<[x |-> 6, y |-> 8], [x |-> 9, y |-> 10]>>

\* C9: in tutorial.py the rows of the commit-as-you-go block are committed
\* once that block is left and the rows of the begin-once block once that
\* one is left, they stay so for every block opened before the UPDATE of
\* line 94, and the SELECT of line 33 returns exactly those four rows.
C9_WritesDurable ==
    /\ /\ Executed("tutorial", 22, "conn_exit")
       /\ pc <= IndexOf("tutorial", 94, "sess_update_some")
       => /\ SeqToSet(CommitAsYouGoRows) \subseteq SeqToSet(committed.some_table)
          /\ SeqToSet(CommitAsYouGoRows) \subseteq SeqToSet(working.some_table)
    /\ /\ Executed("tutorial", 29, "conn_exit")
       /\ pc <= IndexOf("tutorial", 94, "sess_update_some")
       => /\ SeqToSet(BeginOnceRows) \subseteq SeqToSet(committed.some_table)
          /\ SeqToSet(BeginOnceRows) \subseteq SeqToSet(working.some_table)
    /\ JustExecuted("tutorial", 33, "conn_select")
       => /\ result.kind = "some_table"
          /\ result.rows = CommitAsYouGoRows \o BeginOnceRows

\* C9 witness: the SELECT of line 33 has just returned four rows.
C9_Witness ==
    /\ JustExecuted("tutorial", 33, "conn_select")
    /\ result.kind = "some_table"
    /\ Len(result.rows) = 4

\* C10: in quick_start.py, once the flush of line 98 has run the row of
\* sandy_address is gone; once the script has ended there is no row of
\* patrick nor an address row of patrick, and what is committed is exactly
\* the users spongebob and sandy and the addresses
\* spongebob@bikinibottom.net and sandy@squirrelpower.org.
C10_CascadeDeletes ==
    /\ Executed("quick_start", 98, "sess_flush") =>
          ~\E r \in working.address : r.id = heap[names["sandy_address"]].id
    /\ script = "quick_start" /\ Done =>
          /\ ~\E r \in committed.user_account : r.id = heap[names["patrick"]].id
          /\ ~\E r \in committed.address :
                r.user_id = heap[names["patrick"]].id
          /\ {r.name : r \in committed.user_account} = {"spongebob", "sandy"}
          /\ Cardinality(committed.user_account) = 2
          /\ {r.email_address : r \in committed.address} =
                {"spongebob@bikinibottom.net", "sandy@squirrelpower.org"}
          /\ Cardinality(committed.address) = 2

\* C10 witness: quick_start.py has ended after deleting patrick, whose row
\* had the primary key 3, and sandy_address, whose row had the key 2.
C10_Witness ==
    /\ script = "quick_start" /\ Done
    /\ heap[names["patrick"]].id = 3
    /\ heap[names["patrick"]].state = "detached"
    /\ heap[names["sandy_address"]].id = 2
    /\ heap[names["sandy_address"]].state = "detached"

\* The statements that go through session.execute / session.scalars.
SessionStatements == {"sess_select", "sess_execute", "sess_update_some"}

\* C11: no statement is executed through a session whose with block has
\* exited, and no session whose with block has exited holds a transaction
\* open while a Connection block of the script runs.
C11_NoUseAfterWithExit ==
    /\ (~Done /\ cur.op \in SessionStatements) => ~sessions[session].exited
    /\ conn.open =>
          \A s \in DOMAIN sessions :
              ~(sessions[s].exited /\ sessions[s].intrans)

====
